---- MODULE Spec2Model ----
(***************************************************************************)
(* Red-black tree of rbtree.h: nodes linked by left/right/parent, a tree   *)
(* header holding root and size, insertion with recolouring and rotation,  *)
(* BST search, in-order traversal and the splice-only deletion.            *)
(*                                                                         *)
(* Memory is a heap: a function from node addresses to node records.       *)
(* Address 0 is NULL.  While an operation runs the heap is extended with a *)
(* cell for address 0, so that a dereference of NULL is an access to that  *)
(* cell and is recorded as a fault; the action then chooses between the    *)
(* process being killed and the access having gone through.                *)
(***************************************************************************)
EXTENDS Integers, Sequences, FiniteSets, TLC

\* ------------------------------------------------------------------ bounds
MaxNodes == 8       \* nodes inserted in an insert-only run (SpecInsert)
MaxKey == 3         \* keys are 1..MaxKey in SpecInsert and Spec (ties occur)
MaxDistinct == 6    \* nodes, and keys, of a run with distinct keys (SpecDistinct)
MaxMixNodes == 5    \* nodes inserted in a run that also deletes (Spec)
MaxDeletes == 3     \* deleteRbNode calls in a run of Spec

Keys == 1..MaxKey
DistinctKeySet == 1..MaxDistinct

\* --------------------------------------------------------------- data model
NULL == 0

NODE_COLOR_NONE == 0
NODE_COLOR_BLACK == 1
NODE_COLOR_RED == 2

\* INIT_RBNODE: null links, the key, colour RED
INIT_RBNODE(key) ==
  [color |-> NODE_COLOR_RED, left |-> NULL, right |-> NULL, parent |-> NULL,
   key |-> key]

\* INIT_RBTREE: empty tree, size 0
INIT_RBTREE == [root |-> NULL, size |-> 0]

\* intcomparer / foocomparer of the driver: -1, 0 or 1
intcomparer(lhs, rhs) == IF lhs = rhs THEN 0 ELSE IF lhs < rhs THEN -1 ELSE 1

VARIABLES
  heap,      \* node address -> node record, for the nodes the caller has initialised
  tree,      \* the rbtree_t header: root, size
  members,   \* nodes handed to insertRbNode and not since handed to deleteRbNode
  nIns,      \* insertRbNode calls that returned
  nDel,      \* deleteRbNode calls that returned
  status,    \* "ok", or how the process ended: "crashed", "hung"
  last       \* the last call: op, node, and what Log records of it

vars == <<heap, tree, members, nIns, nDel, status, last>>

\* contents address 0 may hold when a NULL dereference goes through
ZeroPage(h) ==
  { [color |-> c, left |-> x, right |-> x, parent |-> x, key |-> 0] :
      c \in {NODE_COLOR_NONE, NODE_COLOR_BLACK, NODE_COLOR_RED},
      x \in {NULL} \cup DOMAIN h }

ZeroCell ==
  [color |-> NODE_COLOR_NONE, left |-> NULL, right |-> NULL, parent |-> NULL,
   key |-> 0]

Ext(h, z) == [n \in {NULL} \cup DOMAIN h |-> IF n = NULL THEN z ELSE h[n]]
Strip(h) == [n \in (DOMAIN h) \ {NULL} |-> h[n]]

\* recursion deeper, or a loop longer, than this revisits a node: it never ends
Fuel(h) == 3 * Cardinality(DOMAIN h) + 3

\* ---------------------------------------------------------------- BstInsert
\* Result: the heap, the returned subtree root, and whether the recursion ran
\* out of stack (it only does on a cyclic heap).
RECURSIVE BstInsert(_, _, _, _)

\* the comparison reversed: greater keys go left
BstInsert_Reversed(h, root, node, fuel) ==
  IF root = NULL THEN [heap |-> h, ret |-> node, overflow |-> FALSE]
  ELSE IF fuel = 0 THEN [heap |-> h, ret |-> root, overflow |-> TRUE]
  ELSE IF 0 > intcomparer(h[root].key, h[node].key)
  THEN LET r == BstInsert(h, h[root].left, node, fuel - 1)
           h1 == [r.heap EXCEPT ![root].left = r.ret]
       IN [heap |-> [h1 EXCEPT ![h1[root].left].parent = root],
           ret |-> root, overflow |-> r.overflow]
  ELSE LET r == BstInsert(h, h[root].right, node, fuel - 1)
           h1 == [r.heap EXCEPT ![root].right = r.ret]
       IN [heap |-> [h1 EXCEPT ![h1[root].right].parent = root],
           ret |-> root, overflow |-> r.overflow]

BstInsert(h, root, node, fuel) ==
  IF root = NULL THEN [heap |-> h, ret |-> node, overflow |-> FALSE]
  ELSE IF fuel = 0 THEN [heap |-> h, ret |-> root, overflow |-> TRUE]
  ELSE IF 0 < intcomparer(h[root].key, h[node].key)
  THEN \* left subtree insertion
       LET r == BstInsert(h, h[root].left, node, fuel - 1)
           h1 == [r.heap EXCEPT ![root].left = r.ret]
       IN [heap |-> [h1 EXCEPT ![h1[root].left].parent = root],
           ret |-> root, overflow |-> r.overflow]
  ELSE \* right subtree insertion (ties included)
       LET r == BstInsert(h, h[root].right, node, fuel - 1)
           h1 == [r.heap EXCEPT ![root].right = r.ret]
       IN [heap |-> [h1 EXCEPT ![h1[root].right].parent = root],
           ret |-> root, overflow |-> r.overflow]

\* ---------------------------------------------------------------- BstSearch
RECURSIVE BstSearch(_, _, _, _)

\* descends to the wrong side
BstSearch_WrongSide(h, root, key, fuel) ==
  IF root = NULL \/ fuel = 0 THEN NULL
  ELSE LET ret == intcomparer(h[root].key, key)
       IN IF ret = 0 THEN root
          ELSE IF 0 < ret THEN BstSearch(h, h[root].right, key, fuel - 1)
          ELSE BstSearch(h, h[root].left, key, fuel - 1)

\* fuel = 0 stands for a descent that never ends (a cyclic heap): no result
BstSearch(h, root, key, fuel) ==
  IF root = NULL \/ fuel = 0 THEN NULL
  ELSE LET ret == intcomparer(h[root].key, key)
       IN IF ret = 0 THEN root
          ELSE IF 0 < ret THEN BstSearch(h, h[root].left, key, fuel - 1)
          ELSE BstSearch(h, h[root].right, key, fuel - 1)

searchKey(h, t, key) == BstSearch(h, t.root, key, Fuel(h))

\* -------------------------------------------------------------- ROTATE_TREE
\* st: [heap, root, rbnode, rots, fault, hung, branches, zigzags, swapped,
\* afterRot]; node is rotated in direction
\* dir, its revdir child is the pivot.  Every statement reads the heap the
\* statements before it left.  The macro has no "node->parent = pivot": the
\* rotated node keeps the parent it had.

\* line 142 left out: the node keeps the pivot as its child
ROTATE_TREE_KeepsPivot(dir, revdir, node, st) ==
  LET h0 == st.heap
      pivot == h0[node][revdir]
      h3 == [h0 EXCEPT ![pivot].parent = h0[node].parent]
      np == h3[node].parent
      r1 == IF NULL = np THEN pivot ELSE st.root
      h4 == IF NULL = np THEN h3
            ELSE IF node = h3[np].left THEN [h3 EXCEPT ![np].left = pivot]
            ELSE [h3 EXCEPT ![np].right = pivot]
      h5 == [h4 EXCEPT ![pivot][dir] = node]
  IN [st EXCEPT !.heap = h5, !.root = r1, !.rots = @ + 1,
                !.fault = @ \/ node = NULL \/ pivot = NULL]

ROTATE_TREE(dir, revdir, node, st) ==
  LET h0 == st.heap
      pivot == h0[node][revdir]
      h1 == [h0 EXCEPT ![node][revdir] = h0[pivot][dir]]
      pd == h1[pivot][dir]
      h2 == IF NULL # pd THEN [h1 EXCEPT ![pd].parent = node] ELSE h1
      h3 == [h2 EXCEPT ![pivot].parent = h2[node].parent]
      np == h3[node].parent
      r1 == IF NULL = np THEN pivot ELSE st.root
      h4 == IF NULL = np THEN h3
            ELSE IF node = h3[np].left THEN [h3 EXCEPT ![np].left = pivot]
            ELSE [h3 EXCEPT ![np].right = pivot]
      h5 == [h4 EXCEPT ![pivot][dir] = node]
  IN [st EXCEPT !.heap = h5, !.root = r1, !.rots = @ + 1,
                !.fault = @ \/ node = NULL \/ pivot = NULL]

\* --------------------------------------------------------------- SWAP_COLOR
SWAP_COLOR(node_a, node_b, st) ==
  LET h0 == st.heap
      color == h0[node_a].color
      h1 == [h0 EXCEPT ![node_a].color = h0[node_b].color]
      h2 == [h1 EXCEPT ![node_b].color = color]
  IN [st EXCEPT !.heap = h2, !.fault = @ \/ node_a = NULL \/ node_b = NULL]

\* ------------------------------------------------------------- insertRbNode
\* lines 301-303, uncle RED: the red is pushed up to the grandparent

UncleRedCase(parent, uncle, grandparent, st) ==
  LET h1 == [st.heap EXCEPT ![grandparent].color = NODE_COLOR_RED]
      h2 == [h1 EXCEPT ![uncle].color = NODE_COLOR_BLACK]
      h3 == [h2 EXCEPT ![parent].color = NODE_COLOR_BLACK]
  IN [st EXCEPT !.heap = h3, !.rbnode = grandparent,
                !.fault = @ \/ parent = NULL \/ grandparent = NULL]

\* lines 310-317 with (dir, revdir) = (left, right), the parent being a left
\* child, and lines 319-326 with (right, left): an inner grandchild is first
\* rotated outwards at the parent, then the grandparent is rotated and swaps
\* colours with the node that took its place
UncleBlackCase(dir, revdir, parent, grandparent, st) ==
  LET inner == st.rbnode = st.heap[parent][revdir]
      s1 == IF inner THEN ROTATE_TREE(dir, revdir, parent, st) ELSE st
      parent1 == IF inner THEN s1.heap[parent].parent ELSE parent
      s2 == ROTATE_TREE(revdir, dir, grandparent, s1)
      s3 == SWAP_COLOR(grandparent, parent1, s2)
      \* the node the second rotation puts in the grandparent's place
      top == s1.heap[grandparent][dir]
  IN [s3 EXCEPT !.rbnode = parent1,
                !.fault = @ \/ parent = NULL \/ (inner /\ parent1 = NULL),
                !.branches = @ + 1,
                !.zigzags = IF inner THEN @ + 1 ELSE @,
                !.swapped = /\ @
                            /\ s3.heap[top].color = NODE_COLOR_BLACK
                            /\ s3.heap[grandparent].color = NODE_COLOR_RED]

\* lines 288-327: one iteration of the fix-up loop
FixUpBody(st) ==
  LET h == st.heap
      parent == h[st.rbnode].parent
      grandparent == h[parent].parent
      isParentLeftChild == parent = h[grandparent].left
      uncle == IF isParentLeftChild THEN h[grandparent].right
               ELSE h[grandparent].left
      st0 == [st EXCEPT !.fault = @ \/ parent = NULL \/ grandparent = NULL]
  IN IF (NULL # uncle) /\ (h[uncle].color = NODE_COLOR_RED)
     THEN UncleRedCase(parent, uncle, grandparent, st0)
     ELSE IF isParentLeftChild
     THEN UncleBlackCase("left", "right", parent, grandparent, st0)
     ELSE UncleBlackCase("right", "left", parent, grandparent, st0)

\* line 287 left out: the loop also runs below a BLACK parent
FixUpCond_AnyParent(st) ==
  /\ st.rbnode # st.root
  /\ st.heap[st.rbnode].color # NODE_COLOR_BLACK

\* lines 285-287: the loop condition, evaluated left to right
FixUpCond(st) ==
  /\ st.rbnode # st.root
  /\ st.heap[st.rbnode].color # NODE_COLOR_BLACK
  /\ st.heap[st.heap[st.rbnode].parent].color = NODE_COLOR_RED

\* the NULL dereferences of the loop condition
FixUpCondFault(st) ==
  /\ st.rbnode # st.root
  /\ \/ st.rbnode = NULL
     \/ /\ st.heap[st.rbnode].color # NODE_COLOR_BLACK
        /\ st.heap[st.rbnode].parent = NULL

\* lines 285-328: the fix-up loop
RECURSIVE FixUp(_, _)
FixUp(st, fuel) ==
  LET st0 == [st EXCEPT !.fault = @ \/ FixUpCondFault(st)]
  IN IF ~FixUpCond(st) THEN st0
     ELSE IF fuel = 0 THEN [st0 EXCEPT !.hung = TRUE]
     ELSE FixUp(FixUpBody([st0 EXCEPT !.afterRot =
                                        IF st.rots > 0 THEN @ + 1 ELSE @]),
                fuel - 1)

\* lines 329-330: the root is painted BLACK and stored in the tree

\* the root keeps its colour
StoreRoot_Unpainted(t, st) ==
  [heap |-> st.heap, tree |-> [t EXCEPT !.root = st.root],
   rots |-> st.rots, fault |-> st.fault \/ st.root = NULL, hung |-> st.hung,
   overflow |-> FALSE, branches |-> st.branches, zigzags |-> st.zigzags,
   swapped |-> st.swapped, afterRot |-> st.afterRot]

StoreRoot(t, st) ==
  [heap |-> [st.heap EXCEPT ![st.root].color = NODE_COLOR_BLACK],
   tree |-> [t EXCEPT !.root = st.root],
   rots |-> st.rots, fault |-> st.fault \/ st.root = NULL, hung |-> st.hung,
   overflow |-> FALSE, branches |-> st.branches, zigzags |-> st.zigzags,
   swapped |-> st.swapped, afterRot |-> st.afterRot]

\* insertRbNode on the extended heap h: the result holds the heap, the tree
\* header, the rotations performed, and how the call went
insertRbNode(h, t, rbnode) ==
  LET r == BstInsert(h, t.root, rbnode, Fuel(h))
      st == [heap |-> r.heap, root |-> r.ret, rbnode |-> rbnode, rots |-> 0,
             fault |-> FALSE, hung |-> FALSE, branches |-> 0, zigzags |-> 0,
             swapped |-> TRUE, afterRot |-> 0]
  IN IF r.overflow
     THEN [heap |-> h, tree |-> t, rots |-> 0, fault |-> FALSE, hung |-> FALSE,
           overflow |-> TRUE, branches |-> 0, zigzags |-> 0, swapped |-> TRUE,
           afterRot |-> 0]
     ELSE StoreRoot(t, FixUp(st, Fuel(h)))

\* ---------------------------------------------------------------- BstDelete
\* lines 237-238: the leftmost node below p; fuel = 0 is a loop that never ends
RECURSIVE Leftmost(_, _, _)
Leftmost(h, p, fuel) ==
  IF fuel = 0 THEN [p |-> p, hung |-> TRUE]
  ELSE IF NULL # h[p].left THEN Leftmost(h, h[p].left, fuel - 1)
  ELSE [p |-> p, hung |-> FALSE]

\* lines 226-234, "case 2", entered by every node without two children: also
\* by a leaf that lines 215-224 have just unlinked
DeleteOneChild(h, root, node) ==
  LET parent == h[node].parent
      child == IF h[node].left # NULL THEN h[node].left ELSE h[node].right
  IN IF h[parent].left = node
     THEN LET h1 == [h EXCEPT ![parent].left = child]
              h2 == [h1 EXCEPT ![h1[parent].left].parent = parent]
          IN [heap |-> h2, ret |-> root, hung |-> FALSE,
              fault |-> parent = NULL \/ h1[parent].left = NULL]
     ELSE LET h1 == [h EXCEPT ![parent].right = child]
              h2 == [h1 EXCEPT ![h1[parent].right].parent = parent]
          IN [heap |-> h2, ret |-> root, hung |-> FALSE,
              fault |-> parent = NULL \/ h1[parent].right = NULL]

\* lines 235-255, "case 3": the leftmost node p of the right subtree is put in
\* node's place
DeleteTwoChildren(h, root, node) ==
  LET lm == Leftmost(h, h[node].right, Fuel(h))
      p == lm.p
      pp == h[p].parent
      h1 == IF h[p].right # NULL
            THEN LET ha == [h EXCEPT ![pp].left = h[p].right]
                 IN [ha EXCEPT ![ha[p].right].parent = ha[p].parent]
            ELSE [h EXCEPT ![pp].left = NULL]
      np == h1[node].parent
      h2 == IF np # NULL /\ h1[np].left = node THEN [h1 EXCEPT ![np].left = p]
            ELSE IF np # NULL /\ h1[np].right = node
            THEN [h1 EXCEPT ![np].right = p]
            ELSE h1
      h3 == [h2 EXCEPT ![p].left = h2[node].left]
      h4 == [h3 EXCEPT ![p].right = h3[node].right]
      h5 == [h4 EXCEPT ![p].parent = h4[node].parent]
  IN IF lm.hung THEN [heap |-> h, ret |-> root, hung |-> TRUE, fault |-> FALSE]
     ELSE [heap |-> h5, ret |-> IF root = node THEN p ELSE root,
           hung |-> FALSE, fault |-> pp = NULL]

BstDelete(h, root, node) ==
  LET leaf == NULL = h[node].left /\ NULL = h[node].right
      parent == h[node].parent
      \* lines 215-224, "case 1": no return after the unlinking
      h1 == IF ~leaf THEN h
            ELSE IF node = h[parent].left THEN [h EXCEPT ![parent].left = NULL]
            ELSE [h EXCEPT ![parent].right = NULL]
  IN IF leaf /\ NULL = parent
     THEN [heap |-> h, ret |-> NULL, hung |-> FALSE, fault |-> FALSE]
     ELSE IF ~(h1[node].left # NULL /\ h1[node].right # NULL)
     THEN DeleteOneChild(h1, root, node)
     ELSE DeleteTwoChildren(h1, root, node)

\* deleteRbNode: the root BstDelete returns goes to a local that is dropped;
\* neither rbtree->root nor rbtree->size is written
deleteRbNode(h, t, node) ==
  LET r == BstDelete(h, t.root, node)
  IN [heap |-> r.heap, tree |-> t, rots |-> 0, fault |-> r.fault,
      hung |-> r.hung, overflow |-> FALSE, branches |-> 0, zigzags |-> 0,
      swapped |-> TRUE, afterRot |-> 0]

\* --------------------------------------------------------- InorderTraversal
\* The keys in the order the visitor gets them; done is FALSE when the
\* recursion revisits a node on its own path and so never returns.
RECURSIVE InorderTraversal(_, _, _)
InorderTraversal(h, rbnode, fuel) ==
  IF NULL = rbnode THEN [keys |-> <<>>, done |-> TRUE]
  ELSE IF fuel = 0 THEN [keys |-> <<>>, done |-> FALSE]
  ELSE LET l == InorderTraversal(h, h[rbnode].left, fuel - 1)
       IN IF ~l.done THEN l
          ELSE LET r == InorderTraversal(h, h[rbnode].right, fuel - 1)
               IN [keys |-> l.keys \o <<h[rbnode].key>> \o r.keys,
                   done |-> r.done]

inorderTraversal(h, t) == InorderTraversal(h, t.root, Cardinality(DOMAIN h) + 1)

\* ------------------------------------------------------------------ actions
\* How a call can end.  A call that dereferenced NULL either was killed, or
\* went on with address 0 behaving as memory holding any of ZeroPage.
\* what a call leaves in "last": the rotations, whether NULL was
\* dereferenced, the uncle-BLACK branches taken, how many of them were
\* zig-zags, whether each left the subtree top BLACK above a RED grandparent,
\* and the loop iterations run after one that rotated
Log(r) ==
  [rots |-> r.rots, fault |-> r.fault, branches |-> r.branches,
   zigzags |-> r.zigzags, swapped |-> r.swapped, afterRot |-> r.afterRot]

Returned(r) ==
  [heap |-> Strip(r.heap), tree |-> r.tree, log |-> Log(r),
   status |-> IF r.hung THEN "hung" ELSE "ok"]

Killed(h, t, r) ==
  [heap |-> h, tree |-> t, log |-> Log(r), status |-> "crashed"]

\* r0 is the call run with ZeroCell at address 0, which decides whether the
\* call dereferences NULL at all; rs holds the call run with each ZeroPage
Outcomes(r0, rs, h, t) ==
  IF r0.overflow THEN {Killed(h, t, r0)}
  ELSE IF ~r0.fault THEN {Returned(r0)}
  ELSE {Killed(h, t, r0)} \cup {Returned(r) : r \in rs}

Init ==
  /\ heap = <<>>
  /\ tree = INIT_RBTREE
  /\ members = {}
  /\ nIns = 0
  /\ nDel = 0
  /\ status = "ok"
  /\ last = [op |-> "init", node |-> NULL, rots |-> 0, fault |-> FALSE,
             branches |-> 0, zigzags |-> 0, swapped |-> TRUE, afterRot |-> 0]

\* The caller initialises the next node with INIT_RBNODE(key) and inserts it.
Insert(key, maxNodes) ==
  /\ status = "ok"
  /\ Cardinality(DOMAIN heap) < maxNodes
  /\ LET node == Cardinality(DOMAIN heap) + 1
         h0 == [n \in (DOMAIN heap) \cup {node} |->
                  IF n = node THEN INIT_RBNODE(key) ELSE heap[n]]
     IN \E o \in Outcomes(insertRbNode(Ext(h0, ZeroCell), tree, node),
                          {insertRbNode(Ext(h0, z), tree, node) : z \in ZeroPage(h0)},
                          h0, tree) :
          /\ heap' = o.heap
          /\ tree' = o.tree
          /\ status' = o.status
          /\ members' = IF o.status = "ok" THEN members \cup {node} ELSE members
          /\ nIns' = IF o.status = "ok" THEN nIns + 1 ELSE nIns
          /\ last' = [op |-> "insert", node |-> node, rots |-> o.log.rots,
                     fault |-> o.log.fault, branches |-> o.log.branches,
                     zigzags |-> o.log.zigzags, swapped |-> o.log.swapped,
                     afterRot |-> o.log.afterRot]
  /\ UNCHANGED nDel

\* The caller deletes a node that is in the tree.
Delete(node) ==
  /\ status = "ok"
  /\ node \in members
  /\ nDel < MaxDeletes
  /\ \E o \in Outcomes(deleteRbNode(Ext(heap, ZeroCell), tree, node),
                        {deleteRbNode(Ext(heap, z), tree, node) : z \in ZeroPage(heap)},
                        heap, tree) :
       /\ heap' = o.heap
       /\ tree' = o.tree
       /\ status' = o.status
       /\ members' = IF o.status = "ok" THEN members \ {node} ELSE members
       /\ nDel' = IF o.status = "ok" THEN nDel + 1 ELSE nDel
       /\ last' = [op |-> "delete", node |-> node, rots |-> o.log.rots,
                     fault |-> o.log.fault, branches |-> o.log.branches,
                     zigzags |-> o.log.zigzags, swapped |-> o.log.swapped,
                     afterRot |-> o.log.afterRot]
  /\ UNCHANGED nIns

\* inserts only, keys may repeat
NextInsert == \E key \in Keys : Insert(key, MaxNodes)
SpecInsert == Init /\ [][NextInsert]_vars

\* inserts only, pairwise distinct keys
NextDistinct ==
  \E key \in DistinctKeySet :
    /\ \A n \in DOMAIN heap : heap[n].key # key
    /\ Insert(key, MaxDistinct)
SpecDistinct == Init /\ [][NextDistinct]_vars

\* inserts and deletes interleaved
InsertStep == \E key \in Keys : Insert(key, MaxMixNodes)
DeleteStep == \E node \in members : Delete(node)
Next == InsertStep \/ DeleteStep
Spec == Init /\ [][Next]_vars

\* ------------------------------------------------- vocabulary of the claims
\* the nodes reachable from the nodes of S by left/right links
RECURSIVE Closure(_, _)
Closure(h, S) ==
  LET T == (S \cup {h[n].left : n \in S} \cup {h[n].right : n \in S}) \ {NULL}
  IN IF T = S THEN S ELSE Closure(h, T)

Subtree(h, n) == Closure(h, {n} \ {NULL})
Reachable == Subtree(heap, tree.root)

Children(h, n) == {h[n].left, h[n].right} \ {NULL}

\* the numbers of BLACK nodes on the paths from n to a null child (paths
\* longer than fuel are not followed)
RECURSIVE BlackCounts(_, _, _)
BlackCounts(h, n, fuel) ==
  IF n = NULL THEN {0}
  ELSE IF fuel = 0 THEN {}
  ELSE LET b == IF h[n].color = NODE_COLOR_BLACK THEN 1 ELSE 0
       IN {c + b : c \in BlackCounts(h, h[n].left, fuel - 1)
                         \cup BlackCounts(h, h[n].right, fuel - 1)}

RootBlackCounts == BlackCounts(heap, tree.root, Cardinality(DOMAIN heap) + 1)

NonDecreasing(seq) == \A i \in 1..(Len(seq) - 1) : seq[i] <= seq[i + 1]

\* ----------------------------------------------------------------------- C1
\* C1: after every insert of an insert-only run, no RED node reachable from
\* the root has a RED left or right child.
C1_NoRedRed ==
  status = "ok" =>
    \A n \in Reachable :
      heap[n].color = NODE_COLOR_RED =>
        \A c \in Children(heap, n) : heap[c].color # NODE_COLOR_RED

\* ----------------------------------------------------------------------- C2
\* C2: after every insert of an insert-only run, every path from the root to
\* a null child passes through the same number of BLACK nodes.
C2_BlackHeight == status = "ok" => Cardinality(RootBlackCounts) = 1

\* ----------------------------------------------------------------------- C3
\* C3: after every insert (the first one included) the root is non-null and
\* BLACK.
C3_RootBlack ==
  (status = "ok" /\ nIns > 0) =>
    (tree.root # NULL /\ heap[tree.root].color = NODE_COLOR_BLACK)

\* a rotation has put a node other than the first one at the root
C3_Witness ==
  /\ status = "ok"
  /\ nIns >= 3
  /\ tree.root \notin {NULL, 1}
  /\ heap[tree.root].color = NODE_COLOR_BLACK

\* ----------------------------------------------------------------------- C4
\* C4 as claimed: after any sequence of inserts, equal keys included, every
\* key in a node's left subtree is strictly less than the node's key and
\* every key in its right subtree is greater than or equal to it.
C4_StrictOrder ==
  status = "ok" =>
    \A n \in Reachable :
      /\ \A m \in Subtree(heap, heap[n].left) : heap[m].key < heap[n].key
      /\ \A m \in Subtree(heap, heap[n].right) : heap[m].key >= heap[n].key

\* C4 as amended: after any sequence of inserts, every key in a node's left
\* subtree is less than or equal to the node's key and every key in its right
\* subtree is greater than or equal to it.
C4_Order ==
  status = "ok" =>
    \A n \in Reachable :
      /\ \A m \in Subtree(heap, heap[n].left) : heap[m].key <= heap[n].key
      /\ \A m \in Subtree(heap, heap[n].right) : heap[m].key >= heap[n].key

\* a rotation has moved an equal key into a left subtree, between smaller and
\* greater keys
C4_Witness ==
  /\ status = "ok"
  /\ \E n \in Reachable :
       /\ \E m \in Subtree(heap, heap[n].left) : heap[m].key = heap[n].key
       /\ \E m \in Subtree(heap, heap[n].left) : heap[m].key < heap[n].key
       /\ \E m \in Subtree(heap, heap[n].right) : heap[m].key > heap[n].key

\* ----------------------------------------------------------------------- C5
\* C5: in a tree built by inserts with pairwise distinct keys, searchKey
\* returns the very node inserted with the key, and NULL for a key that no
\* inserted node has.
C5_Search ==
  status = "ok" =>
    \A key \in 0..(MaxDistinct + 1) :
      LET found == searchKey(heap, tree, key)
      IN IF \E n \in members : heap[n].key = key
         THEN found \in members /\ heap[found].key = key
         ELSE found = NULL

\* every key but one is in the tree; a node two levels below the root is
\* found, the missing key is not
C5_Witness ==
  /\ status = "ok"
  /\ nIns >= 5
  /\ \E key \in DistinctKeySet :
       LET found == searchKey(heap, tree, key)
       IN /\ found # NULL
          /\ heap[found].parent # NULL
          /\ heap[heap[found].parent].parent # NULL
  /\ \E key \in DistinctKeySet : searchKey(heap, tree, key) = NULL

\* ----------------------------------------------------------------------- C6
\* C6: after any sequence of inserts and deletes of member nodes, the
\* in-order traversal terminates and visits the keys in non-decreasing order.
C6_TraversalSorted ==
  status = "ok" =>
    LET r == inorderTraversal(heap, tree)
    IN r.done /\ NonDecreasing(r.keys)

\* ----------------------------------------------------------------------- C7
\* C7: a deleteRbNode of a node reachable from the root leaves reachable
\* exactly the nodes that were reachable before, minus that node.
C7_DeleteRemovesNode ==
  [][(nDel' = nDel + 1 /\ last'.node \in Reachable) =>
       Subtree(heap', tree'.root) = Reachable \ {last'.node}]_vars

\* ----------------------------------------------------------------------- C8
\* C8: after any interleaving of inserts and deletes of member nodes, every
\* path from the root to a null child holds the same number of BLACK nodes.
\* Stated of one delete: applied to a tree whose paths hold the same number
\* of BLACK nodes, it leaves such a tree.
C8_BlackHeightAfterDelete ==
  [][(nDel' = nDel + 1 /\ Cardinality(RootBlackCounts) = 1) =>
       Cardinality(BlackCounts(heap', tree'.root, Cardinality(DOMAIN heap') + 1)) = 1]_vars

\* ----------------------------------------------------------------------- C9
\* C9: between operations, tree->size is the number of completed inserts
\* minus the number of completed deletes.
C9_Size == status = "ok" => tree.size = nIns - nDel

\* ---------------------------------------------------------------------- C10
\* C10: after every insert, every non-null child of a reachable node has that
\* node as its parent, and the root has no parent.
C10_ParentLinks ==
  status = "ok" =>
    /\ \A p \in Reachable : \A c \in Children(heap, p) : heap[c].parent = p
    /\ tree.root # NULL => heap[tree.root].parent = NULL

\* ---------------------------------------------------------------------- C11
\* the red/black invariants of the tree t in the heap h: the root is BLACK,
\* no RED node has a RED child, every path from the root to a null child
\* holds the same number of BLACK nodes
RedBlack(h, t) ==
  /\ t.root # NULL => h[t.root].color = NODE_COLOR_BLACK
  /\ \A n \in Subtree(h, t.root) :
       h[n].color = NODE_COLOR_RED =>
         \A c \in Children(h, n) : h[c].color # NODE_COLOR_RED
  /\ Cardinality(BlackCounts(h, t.root, Cardinality(DOMAIN h) + 1)) = 1

\* C11: an insert into a tree that satisfies the red/black invariants, whose
\* fix-up takes the uncle-BLACK branch (zig-zig or zig-zag), leaves the
\* branch with the new top of the rotated subtree BLACK and the old
\* grandparent RED.
C11_BranchSwapsColours ==
  [][(/\ nIns' = nIns + 1
      /\ RedBlack(heap, tree)
      /\ last'.branches > 0) => last'.swapped]_vars

\* ---------------------------------------------------------------------- C12
\* C12: every insertRbNode call rotates at most twice, and no iteration of
\* the fix-up loop runs after one that rotated.
C12_TwoRotations ==
  (status = "ok" /\ last.op = "insert") =>
    (last.rots <= 2 /\ last.afterRot = 0)

\* ------------------------------------------------------------- C13 C14 C15
\* a tree as the claims about deleteRbNode take it: the left/right links from
\* the root reach every member once, every child names its parent, the root
\* has none
WellFormed ==
  /\ Reachable = members
  /\ LET r == inorderTraversal(heap, tree)
     IN r.done /\ Len(r.keys) = Cardinality(members)
  /\ \A n \in Reachable : \A c \in Children(heap, n) : heap[c].parent = n
  /\ tree.root # NULL => heap[tree.root].parent = NULL

\* this step is a deleteRbNode call on v, applied to a well-formed tree
Deleting(v) ==
  /\ status = "ok"
  /\ WellFormed
  /\ v \in members
  /\ last'.op = "delete"
  /\ last'.node = v
  /\ (nDel' = nDel + 1 \/ status' # "ok")

\* after the step, the slot that held v (a child link of v's parent, or
\* tree->root) holds x
SlotHolds(v, x) ==
  LET parent == heap[v].parent
  IN IF parent = NULL THEN tree'.root = x
     ELSE IF heap[parent].left = v THEN heap'[parent].left = x
     ELSE heap'[parent].right = x

\* C13: deleteRbNode of a member leaf v returns, and afterwards tree->root
\* is null if v was the only node; otherwise the slot of v's parent that held
\* v is null and every other link of every other node is unchanged.
C13_DeleteLeaf ==
  [][\A v \in members :
       (Deleting(v) /\ Children(heap, v) = {}) =>
         /\ status' = "ok"
         /\ SlotHolds(v, NULL)
         /\ \A n \in members \ {v} :
              /\ heap'[n].parent = heap[n].parent
              /\ heap[n].left # v => heap'[n].left = heap[n].left
              /\ heap[n].right # v => heap'[n].right = heap[n].right]_vars

\* C14: deleteRbNode of a member v with two children returns, and afterwards
\* the leftmost node s of v's right subtree holds v's former slot, s's
\* children are v's former left child and v's former right subtree without s,
\* both name s as parent, and s's former right child holds s's former slot.
C14_DeleteTwoChildren ==
  [][\A v \in members :
       (Deleting(v) /\ heap[v].left # NULL /\ heap[v].right # NULL) =>
         LET s == Leftmost(heap, heap[v].right, Fuel(heap)).p
         IN /\ status' = "ok"
            /\ SlotHolds(v, s)
            /\ heap'[s].parent = heap[v].parent
            /\ heap'[s].left = heap[v].left
            /\ heap'[heap[v].left].parent = s
            /\ IF s = heap[v].right
               THEN heap'[s].right = heap[s].right
               ELSE /\ heap'[s].right = heap[v].right
                    /\ heap'[heap[v].right].parent = s
                    /\ heap'[heap[s].parent].left = heap[s].right
                    /\ heap[s].right # NULL =>
                         heap'[heap[s].right].parent = heap[s].parent]_vars

\* C15: deleteRbNode of a member v with exactly one child c, root or not,
\* returns, and afterwards c holds v's former slot and c->parent is v's
\* former parent.
C15_DeleteOneChild ==
  [][\A v \in members :
       (Deleting(v) /\ Cardinality(Children(heap, v)) = 1) =>
         LET c == CHOOSE x \in Children(heap, v) : TRUE
         IN /\ status' = "ok"
            /\ SlotHolds(v, c)
            /\ heap'[c].parent = heap[v].parent]_vars

\* ---------------------------------------------------------------------- C16
\* C16: in an insert-only run no insertRbNode call dereferences NULL: the
\* parent and grandparent the loop body reads, the node and the pivot of
\* every rotation and the nodes of every colour swap are non-null, and the
\* call returns.
C16_NoNullLink == (last.op = "insert") => (~last.fault /\ status = "ok")

\* a zig-zag insert below a grandparent that has a parent: two rotations,
\* after which the inserted node has children and hangs under a node
C16_Witness ==
  /\ status = "ok"
  /\ last.op = "insert"
  /\ ~last.fault
  /\ last.rots = 2
  /\ last.zigzags = 1
  /\ Children(heap, last.node) # {}
  /\ \E n \in Reachable : last.node \in Children(heap, n)

\* ---------------------------------------------------------------------- C17
\* C17: after n inserts of n distinct nodes, keys repeated or not, the
\* left/right links from the root reach exactly the n inserted nodes, and the
\* traversal ends having met each of them once (no cycle, no node on two
\* paths).
C17_TreeOfInserted ==
  status = "ok" =>
    /\ Reachable = 1..nIns
    /\ members = 1..nIns
    /\ LET r == inorderTraversal(heap, tree)
       IN r.done /\ Len(r.keys) = nIns

\* three nodes with the same key and a node with another key are in a tree
\* whose root was changed by a rotation
C17_Witness ==
  /\ status = "ok"
  /\ nIns >= 5
  /\ tree.root \notin {NULL, 1}
  /\ \E k \in Keys : Cardinality({n \in Reachable : heap[n].key = k}) >= 3
  /\ \E n \in Reachable : heap[n].key # heap[tree.root].key

====
